---- MODULE Spec2Model ----
(***************************************************************************)
(* The Movie API of main.py: eight request handlers over two tables        *)
(* (movies, comments), each handler one atomic step from the request to    *)
(* the JSONResponse it returns.                                            *)
(*                                                                         *)
(* Values.  An Optional[T] is None (Python None, SQL NULL, JSON null) or   *)
(* Some(v).  A str that the code inspects (genre, comment text, the OMDB   *)
(* "Year") is a sequence of one-character strings; a str the code only     *)
(* copies (title, message) is a TLA+ string.                               *)
(***************************************************************************)
EXTENDS Integers, Sequences, FiniteSets, TLC

VARIABLES movies,       \* table movies: id -> [title, genre, year]
          comments,     \* table comments: id -> [comment, movie_id]
          movie_seq,    \* AUTO_INCREMENT of movies.id: the last id handed out
          comment_seq,  \* AUTO_INCREMENT of comments.id
          fk_enforced,  \* whether the storage engine enforces comments.movie_id
          req,          \* the last request: handler and arguments
          resp,         \* the JSONResponse returned for req
          pre           \* the tables as they were when req arrived

vars == <<movies, comments, movie_seq, comment_seq, fk_enforced, req, resp, pre>>

\* Bounds: how many ids each AUTO_INCREMENT counter hands out.
MaxMovies == 2
MaxComments == 1

None == <<>>
Some(v) == <<v>>

STATUS_SUCCESS == "success"
STATUS_FAILED == "fail"

----------------------------------------------------------------------------
(* Strings the code looks into.                                            *)

Digits == {"0", "1", "2", "3", "4", "5", "6", "7", "8", "9"}

DigitVal(c) ==
    CASE c = "0" -> 0 [] c = "1" -> 1 [] c = "2" -> 2 [] c = "3" -> 3
      [] c = "4" -> 4 [] c = "5" -> 5 [] c = "6" -> 6 [] c = "7" -> 7
      [] c = "8" -> 8 [] c = "9" -> 9

\* int(s) raises ValueError unless s is a decimal numeral.
int_raises(s) == s = <<>> \/ \E i \in 1..Len(s) : s[i] \notin Digits

RECURSIVE int(_)
int(s) ==
    IF s = <<>> THEN 0
    ELSE int(SubSeq(s, 1, Len(s) - 1)) * 10 + DigitVal(s[Len(s)])

\* Case folding of the letters the model uses.
lower(c) ==
    CASE c = "S" -> "s" [] c = "F" -> "f" [] c = "D" -> "d" [] c = "G" -> "g"
      [] OTHER -> c

\* SQL LIKE, case-insensitive: % matches any run, _ any one character.
RECURSIVE like(_, _)
like(s, pattern) ==
    IF pattern = <<>> THEN s = <<>>
    ELSE IF Head(pattern) = "%"
         THEN like(s, Tail(pattern)) \/ (s # <<>> /\ like(Tail(s), pattern))
    ELSE IF s = <<>> THEN FALSE
    ELSE /\ Head(pattern) = "_" \/ lower(Head(pattern)) = lower(Head(s))
         /\ like(Tail(s), Tail(pattern))

\* column.ilike(f"%{value}%"): a NULL column matches nothing.
ilike(column, value) ==
    column # None /\ like(column[1], <<"%">> \o value \o <<"%">>)

\* Python truthiness of an Optional[int] / Optional[str] argument.
truthy_int(o) == o # None /\ o[1] # 0
truthy_str(o) == o # None /\ o[1] # <<>>

RECURSIVE sorted(_)
sorted(S) ==
    IF S = {} THEN <<>>
    ELSE LET m == CHOOSE x \in S : \A y \in S : x <= y
         IN  <<m>> \o sorted(S \ {m})

Range(s) == {s[i] : i \in 1..Len(s)}

Get(d, k) == IF k \in DOMAIN d THEN Some(d[k]) ELSE None

----------------------------------------------------------------------------
(* Responses.                                                              *)

JSONResponse(status_code, content) ==
    [status_code |-> status_code, content |-> content]

\* A 404 answering 200: the slip of a copied success response.
not_found_response_200(message) ==
    [status_code |-> 200, content |-> [status |-> STATUS_SUCCESS, message |-> message]]

\* The answer of the update and delete handlers to an id no row has: no "data".
not_found_response(message) ==
    JSONResponse(404, [status |-> STATUS_FAILED, message |-> message])

\* The except branch every handler ends with: the error text, no "data".
except_response(e) ==
    JSONResponse(400, [status |-> STATUS_FAILED, message |-> e])

----------------------------------------------------------------------------
(* The metadata collaborator (OMDB), as create_movie sees it: httpx.get    *)
(* raises, or response.json() raises, or it yields a payload.  The Year of *)
(* a payload is text: a numeral for a film, a range for a series.          *)

Year2010 == <<"2", "0", "1", "0">>
YearRange == <<"2", "0", "1", "1", "-", "2", "0", "1", "9">>
GenreSciFi == <<"S", "f">>
GenreDrama == <<"d">>

OmdbNotFound == [Response |-> "False", Error |-> "Movie not found!"]
OmdbFound(year) ==
    [Response |-> "True", Title |-> "Inception", Genre |-> GenreSciFi, Year |-> year]
OmdbTruncated == [Response |-> "True", Title |-> "Inception"]

OmdbReplies ==
    {[kind |-> "ConnectError", data |-> OmdbNotFound],
     [kind |-> "json", data |-> OmdbNotFound],
     [kind |-> "json", data |-> OmdbFound(Year2010)],
     [kind |-> "json", data |-> OmdbFound(YearRange)],
     [kind |-> "json", data |-> OmdbTruncated]}

MovieTitles == {"inception"}

----------------------------------------------------------------------------
(* Request inputs.                                                         *)

MovieIds == 1..MaxMovies
CommentIds == 1..MaxComments

\* MovieCreate: title required, genre and year optional.
MovieCreate ==
    {[title |-> "Interstellar", genre |-> None, year |-> None],
     [title |-> "Interstellar", genre |-> Some(GenreDrama), year |-> Some(0)]}

\* CommentCreate: comment and movie_id required.
CommentCreate == [comment : {<<"G", "o">>}, movie_id : MovieIds]

\* JSON bodies PUT /comments/{id} accepts: {} and {"comment": "..."}.
CommentUpdateBodies == {<<>>, [comment |-> Some(<<"G", "o">>)]}

\* CommentUpdate(**body).dict(): a field the body leaves out is its default.
CommentUpdate_dict(body) ==
    [comment |-> IF "comment" \in DOMAIN body THEN body.comment ELSE None]

\* The query strings of GET /movies and GET /comments.
MovieQueries ==
    {[genre |-> None, year |-> None],
     [genre |-> Some(<<"s", "F">>), year |-> None],
     [genre |-> Some(<<>>), year |-> None],
     [genre |-> None, year |-> Some(0)],
     [genre |-> Some(<<"d">>), year |-> Some(2010)]}

CommentQueries ==
    {[comment |-> None, movie_id |-> None],
     [comment |-> Some(<<"g">>), movie_id |-> Some(0)]}
    \cup {[comment |-> None, movie_id |-> Some(m)] : m \in MovieIds}

----------------------------------------------------------------------------
(* The tables.                                                             *)

drop(table, id) == [i \in DOMAIN table \ {id} |-> table[i]]

insert(table, id, row) ==
    [i \in DOMAIN table \cup {id} |-> IF i = id THEN row ELSE table[i]]

\* No cascade: the movie's comments stay behind.
cascade_delete_none(table, movie_id) == table

\* Movie.comments, cascade='all, delete' / ondelete='CASCADE': deleting a
\* movie deletes the comments whose movie_id is its id.
cascade_delete(table, movie_id) ==
    [i \in {c \in DOMAIN table : table[c].movie_id # movie_id} |-> table[i]]

movie_dict(id) ==
    [id |-> id, title |-> movies[id].title, genre |-> movies[id].genre,
     year |-> movies[id].year]

comment_dict(id) ==
    [id |-> id, comment |-> comments[id].comment,
     movie_id |-> comments[id].movie_id]

\* MovieResponse: id, title, genre: str, year: int, none of them optional.
MovieResponse_raises(row) == row.genre = None \/ row.year = None

Init ==
    /\ movies = <<>>
    /\ comments = <<>>
    /\ movie_seq = 0
    /\ comment_seq = 0
    /\ fk_enforced \in BOOLEAN
    /\ req = [op |-> "none"]
    /\ resp = JSONResponse(0, <<>>)
    /\ pre = [movies |-> <<>>, comments |-> <<>>]

\* What every handler does on entry and leaves alone.
Request(r) ==
    /\ req' = r
    /\ pre' = [movies |-> movies, comments |-> comments]
    /\ UNCHANGED fk_enforced

----------------------------------------------------------------------------
(* POST /movies                                                            *)

\* The flag compared as a JSON boolean instead of the text OMDB sends.
omdb_not_found_bool(data) == Get(data, "Response") = Some("false")

\* data.get("Response") == "False"
omdb_not_found(data) == Get(data, "Response") = Some("False")

create_movie(movie_title, omdb) ==
    /\ Request([op |-> "create_movie", movie_title |-> movie_title, omdb |-> omdb])
    /\ UNCHANGED <<comments, comment_seq>>
    /\ IF omdb.kind # "json"
       THEN /\ resp' = except_response(omdb.kind)
            /\ UNCHANGED <<movies, movie_seq>>
       ELSE IF omdb_not_found(omdb.data)
       THEN /\ resp' = JSONResponse(404, [status |-> STATUS_FAILED,
                                          message |-> "Movie not found",
                                          data |-> None])
            /\ UNCHANGED <<movies, movie_seq>>
       ELSE IF {"Title", "Genre", "Year"} \ DOMAIN omdb.data # {}
       THEN /\ resp' = except_response("KeyError")
            /\ UNCHANGED <<movies, movie_seq>>
       ELSE IF int_raises(omdb.data.Year)
       THEN /\ resp' = except_response("ValueError")
            /\ UNCHANGED <<movies, movie_seq>>
       ELSE /\ movie_seq < MaxMovies
            /\ movie_seq' = movie_seq + 1
            /\ movies' = insert(movies, movie_seq + 1,
                                [title |-> omdb.data.Title,
                                 genre |-> Some(omdb.data.Genre),
                                 year |-> Some(int(omdb.data.Year))])
            /\ resp' = JSONResponse(200, [status |-> STATUS_SUCCESS,
                                          message |-> "Added movie successfully !!",
                                          data |-> [id |-> movie_seq + 1]])

----------------------------------------------------------------------------
(* GET /movies                                                             *)

\* The rows db.query(Movie) keeps after the two optional filters.
query_movies(genre, year) ==
    {id \in DOMAIN movies :
        /\ truthy_str(genre) => ilike(movies[id].genre, genre[1])
        /\ truthy_int(year) => movies[id].year = year}

read_movies(genre, year) ==
    /\ Request([op |-> "read_movies", genre |-> genre, year |-> year])
    /\ UNCHANGED <<movies, comments, movie_seq, comment_seq>>
    /\ LET ids == sorted(query_movies(genre, year))
       IN  resp' = JSONResponse(200,
                       [status |-> STATUS_SUCCESS,
                        message |-> "Get movies list successfully!",
                        data |-> [i \in DOMAIN ids |-> movie_dict(ids[i])]])

----------------------------------------------------------------------------
(* PUT /movies/{movie_id}                                                  *)

\* for key, value in movie_data.dict().items(): setattr(movie, key, value)
set_movie(movie, movie_data) ==
    [movie EXCEPT !.title = movie_data.title, !.genre = movie_data.genre,
                  !.year = movie_data.year]

update_movie(movie_id, movie_data) ==
    /\ Request([op |-> "update_movie", movie_id |-> movie_id,
                movie_data |-> movie_data])
    /\ UNCHANGED <<comments, movie_seq, comment_seq>>
    /\ IF movie_id \notin DOMAIN movies
       THEN /\ resp' = not_found_response("Movie not found")
            /\ UNCHANGED movies
       ELSE LET movie == set_movie(movies[movie_id], movie_data)
            IN  /\ movies' = [movies EXCEPT ![movie_id] = movie]
                \* the commit is done; building the response can still raise
                /\ resp' = IF MovieResponse_raises(movie)
                           THEN except_response("ValidationError")
                           ELSE JSONResponse(200,
                                    [status |-> STATUS_SUCCESS,
                                     message |-> "Update movie detail successfully!",
                                     data |-> [id |-> movie_id,
                                               title |-> movie.title,
                                               genre |-> movie.genre,
                                               year |-> movie.year]])

----------------------------------------------------------------------------
(* DELETE /movies/{movie_id}                                               *)

delete_movie(movie_id) ==
    /\ Request([op |-> "delete_movie", movie_id |-> movie_id])
    /\ UNCHANGED <<movie_seq, comment_seq>>
    /\ IF movie_id \notin DOMAIN movies
       THEN /\ resp' = not_found_response("Movie detail not found")
            /\ UNCHANGED <<movies, comments>>
       ELSE /\ movies' = drop(movies, movie_id)
            /\ comments' = cascade_delete(comments, movie_id)
            /\ resp' = JSONResponse(200,
                           [status |-> STATUS_SUCCESS,
                            message |-> "Delete movie detail successfully !!"])

----------------------------------------------------------------------------
(* POST /comments                                                          *)

\* The INSERT fails (IntegrityError) when the engine enforces the foreign
\* key and no movie has the id; the handler itself checks nothing.
insert_comment_raises(movie_id) == fk_enforced /\ movie_id \notin DOMAIN movies

create_comment(comment) ==
    /\ Request([op |-> "create_comment", comment |-> comment])
    /\ UNCHANGED <<movies, movie_seq>>
    /\ IF insert_comment_raises(comment.movie_id)
       THEN /\ resp' = except_response("IntegrityError")
            /\ UNCHANGED <<comments, comment_seq>>
       ELSE /\ comment_seq < MaxComments
            /\ comment_seq' = comment_seq + 1
            /\ comments' = insert(comments, comment_seq + 1,
                                  [comment |-> Some(comment.comment),
                                   movie_id |-> comment.movie_id])
            /\ resp' = JSONResponse(200,
                           [status |-> STATUS_SUCCESS,
                            message |-> "Added movie comment successfully !!",
                            data |-> [id |-> comment_seq + 1]])

----------------------------------------------------------------------------
(* GET /comments                                                           *)

\* The movie_id filter left out.
query_comments_any_movie(comment, movie_id) ==
    {id \in DOMAIN comments :
        truthy_str(comment) => ilike(comments[id].comment, comment[1])}

query_comments(comment, movie_id) ==
    {id \in DOMAIN comments :
        /\ truthy_str(comment) => ilike(comments[id].comment, comment[1])
        /\ truthy_int(movie_id) => comments[id].movie_id = movie_id[1]}

read_comments_data(comment, movie_id) ==
    LET ids == sorted(query_comments(comment, movie_id))
    IN  [i \in DOMAIN ids |-> comment_dict(ids[i])]

read_comments(comment, movie_id) ==
    /\ Request([op |-> "read_comments", comment |-> comment,
                movie_id |-> movie_id])
    /\ UNCHANGED <<movies, comments, movie_seq, comment_seq>>
    /\ resp' = JSONResponse(200,
                   [status |-> STATUS_SUCCESS,
                    message |-> "Get comments list successfully!",
                    data |-> read_comments_data(comment, movie_id)])

----------------------------------------------------------------------------
(* PUT /comments/{comment_id}                                              *)

\* An update shape that also carries movie_id, defaulting to None.
set_comment_and_movie(comment, comment_data) ==
    [comment EXCEPT !.comment = comment_data.comment, !.movie_id = 0]

\* for key, value in comment_data.dict().items(): setattr(comment, key, value)
set_comment(comment, comment_data) ==
    [comment EXCEPT !.comment = comment_data.comment]

update_comment(comment_id, body) ==
    /\ Request([op |-> "update_comment", comment_id |-> comment_id,
                body |-> body])
    /\ UNCHANGED <<movies, movie_seq, comment_seq>>
    /\ IF comment_id \notin DOMAIN comments
       THEN /\ resp' = not_found_response("Comment not found")
            /\ UNCHANGED comments
       ELSE LET comment == set_comment(comments[comment_id],
                                       CommentUpdate_dict(body))
            IN  /\ comments' = [comments EXCEPT ![comment_id] = comment]
                /\ resp' = JSONResponse(200,
                               [status |-> STATUS_SUCCESS,
                                message |-> "Update comment successfully!",
                                data |-> [id |-> comment_id,
                                          comment |-> comment.comment,
                                          movie_id |-> comment.movie_id]])

----------------------------------------------------------------------------
(* DELETE /comments/{comment_id}                                           *)

delete_comment(comment_id) ==
    /\ Request([op |-> "delete_comment", comment_id |-> comment_id])
    /\ UNCHANGED <<movies, movie_seq, comment_seq>>
    /\ IF comment_id \notin DOMAIN comments
       THEN /\ resp' = not_found_response("comment detail not found")
            /\ UNCHANGED comments
       ELSE /\ comments' = drop(comments, comment_id)
            /\ resp' = JSONResponse(200,
                           [status |-> STATUS_SUCCESS,
                            message |-> "Delete comment detail successfully !!"])

----------------------------------------------------------------------------

Next ==
    \/ \E t \in MovieTitles, o \in OmdbReplies : create_movie(t, o)
    \/ \E q \in MovieQueries : read_movies(q.genre, q.year)
    \/ \E m \in MovieIds, d \in MovieCreate : update_movie(m, d)
    \/ \E m \in MovieIds : delete_movie(m)
    \/ \E c \in CommentCreate : create_comment(c)
    \/ \E q \in CommentQueries : read_comments(q.comment, q.movie_id)
    \/ \E c \in CommentIds, b \in CommentUpdateBodies : update_comment(c, b)
    \/ \E c \in CommentIds : delete_comment(c)

Spec == Init /\ [][Next]_vars

----------------------------------------------------------------------------
(* Properties.  Each speaks of the last request (req), the tables it found *)
(* (pre), the tables it left (movies, comments) and its response (resp).   *)

Op(name) == req.op = name
Success == resp.status_code = 200
NotFoundFailure ==
    resp.status_code = 404 /\ resp.content.status = STATUS_FAILED
TablesUnchanged == movies = pre.movies /\ comments = pre.comments

\* C1: a successful delete_movie(m) of a stored movie m leaves m absent and
\* no comment with movie_id = m; every other movie, and every comment of
\* another movie, is as it was.
C1_DeleteMovieCascades ==
    (Op("delete_movie") /\ req.movie_id \in DOMAIN pre.movies /\ Success) =>
        LET m == req.movie_id
            kept == {c \in DOMAIN pre.comments : pre.comments[c].movie_id # m}
        IN  /\ m \notin DOMAIN movies
            /\ \A c \in DOMAIN comments : comments[c].movie_id # m
            /\ DOMAIN movies = DOMAIN pre.movies \ {m}
            /\ \A i \in DOMAIN movies : movies[i] = pre.movies[i]
            /\ DOMAIN comments = kept
            /\ \A c \in kept : comments[c] = pre.comments[c]

\* C1 witness: a delete that removed a movie together with a comment of it
\* and kept another movie.
C1_Witness ==
    /\ Op("delete_movie") /\ Success
    /\ req.movie_id \in DOMAIN pre.movies
    /\ \E c \in DOMAIN pre.comments : pre.comments[c].movie_id = req.movie_id
    /\ movies # <<>>

OmdbReportsNotFound ==
    /\ req.omdb.kind = "json"
    /\ "Response" \in DOMAIN req.omdb.data
    /\ req.omdb.data.Response = "False"

OmdbResolves ==
    /\ req.omdb.kind = "json"
    /\ {"Response", "Title", "Genre", "Year"} \subseteq DOMAIN req.omdb.data
    /\ req.omdb.data.Response = "True"

\* C3: when the collaborator reports not-found, create_movie answers 404
\* "fail" "Movie not found" and the stored movies are as before.
C3_UnresolvedTitleCreatesNothing ==
    (Op("create_movie") /\ OmdbReportsNotFound) =>
        /\ NotFoundFailure
        /\ resp.content.message = "Movie not found"
        /\ movies = pre.movies

\* C3 witness: a not-found reply while a movie is already stored.
C3_Witness ==
    Op("create_movie") /\ OmdbReportsNotFound /\ pre.movies # <<>>
       /\ resp.status_code = 404

\* C4: when the collaborator resolves the title, create_movie adds exactly
\* one movie carrying the collaborator's title, genre and year, answers
\* success with data.id the new row's id, an id no stored movie had, and an
\* unfiltered read_movies then contains the row.
C4_ResolvedTitleCreatesMovie ==
    (Op("create_movie") /\ OmdbResolves) =>
        /\ Success
        /\ resp.content.status = STATUS_SUCCESS
        /\ LET id == resp.content.data.id
           IN  /\ id \notin DOMAIN pre.movies
               /\ DOMAIN movies = DOMAIN pre.movies \cup {id}
               /\ \A i \in DOMAIN pre.movies : movies[i] = pre.movies[i]
               /\ movies[id].title = req.omdb.data.Title
               /\ movies[id].genre = Some(req.omdb.data.Genre)
               /\ movies[id].year = Some(int(req.omdb.data.Year))
               /\ id \in query_movies(None, None)

\* C5: update_movie of a stored movie with any record MovieCreate accepts
\* stores the record's title, genre and year under the same id and answers
\* 200 success with data equal to the stored record.
C5_UpdateMovieReturnsRecord ==
    (Op("update_movie") /\ req.movie_id \in DOMAIN pre.movies) =>
        LET m == req.movie_id
        IN  /\ DOMAIN movies = DOMAIN pre.movies
            /\ movies[m] = [title |-> req.movie_data.title,
                            genre |-> req.movie_data.genre,
                            year |-> req.movie_data.year]
            /\ Success
            /\ resp.content.status = STATUS_SUCCESS
            /\ resp.content.data = movie_dict(m)

C7_OmittedFieldKeepsText ==
    (Op("update_comment") /\ req.comment_id \in DOMAIN pre.comments
       /\ "comment" \notin DOMAIN req.body) =>
        comments[req.comment_id].comment = pre.comments[req.comment_id].comment

\* s contains sub, letter case ignored.
contains(s, sub) ==
    \E i \in 0..(Len(s) - Len(sub)) :
        \A j \in 1..Len(sub) : lower(s[i + j]) = lower(sub[j])

\* C8: read_movies returns exactly the movies whose genre contains the genre
\* value (when one is supplied) and whose year equals the year value (when
\* one is supplied, 0 included), all movies when neither is, and changes no
\* row.
C8_ReadMoviesFilters ==
    Op("read_movies") =>
        LET data == resp.content.data
            expected ==
                {id \in DOMAIN pre.movies :
                    /\ req.genre # None =>
                         /\ pre.movies[id].genre # None
                         /\ contains(pre.movies[id].genre[1], req.genre[1])
                    /\ req.year # None => pre.movies[id].year = req.year}
        IN  /\ Success
            /\ Range(data) = {movie_dict(id) : id \in expected}
            /\ TablesUnchanged

C10_UniformEnvelope ==
    ~Op("none") =>
        /\ DOMAIN resp.content = {"status", "message", "data"}
        /\ resp.content.status = STATUS_SUCCESS <=> resp.status_code = 200
        /\ resp.status_code \in {404, 400} => resp.content.status = STATUS_FAILED

\* C11: after any sequence of requests, every stored comment's movie_id
\* is the id of a stored movie.
C11_CommentsReferenceStoredMovies ==
    \A c \in DOMAIN comments : comments[c].movie_id \in DOMAIN movies

\* C12: a response with status "fail" (404 or 400) leaves the stored movies
\* and comments as they were before the request.
C12_FailureChangesNothing ==
    (~Op("none") /\ resp.content.status = STATUS_FAILED) => TablesUnchanged

====
